---------------------------- MODULE Spec2Model ----------------------------
(***************************************************************************)
(* Model of src/runbot.py: the trading control loop (TradingBot.run and    *)
(* the methods it calls), the event listener (WebSocketManager) running on *)
(* its own thread, and the exchange both talk to.                          *)
(*                                                                         *)
(* The two threads share the OrderMonitor and the threading.Event          *)
(* fill_event without any lock, so every statement that reads or writes    *)
(* one of them is a step of its own.  Statements that touch only state     *)
(* private to one thread are grouped with the shared access before them.   *)
(*                                                                         *)
(* Units: quantities are counted in halves of the configured quantity      *)
(* (quantity = 2 stands for one full order, 1 for a partial execution),    *)
(* prices and take_profit in halves of the third decimal (so that          *)
(* round(price, 3) is not the identity: an odd price has a fourth          *)
(* decimal), time in units of 10 seconds (the fill timeout, the sleep      *)
(* cap).  Optional values (Python None) are sequences: << >> is None,      *)
(* <<v>> is v.                                                             *)
(***************************************************************************)
EXTENDS Integers, Sequences, FiniteSets, Bags, TLC

(***************************************************************************)
(* Bounds of the model.                                                    *)
(***************************************************************************)
\* open orders the control loop may place in one behaviour
MaxOpens == 2
\* events the exchange may emit in one behaviour (one more in SpecWide)
MaxEvents == 1
\* TradingConfig.max_orders, scaled down
max_orders == 2
\* the price the exchange reports for an open order (order["price"])
OrderPrice == 10
\* the listen keys the exchange may issue
MaxKeys == 4
\* the prices place_close_order_with_fallback is called with on its own
MaxClosePrice == 5
\* the lengths of active_close_orders and the values of max_orders that
\* _calculate_wait_time is called with on its own
MaxActive == 26
MaxLimit == 76
\* the largest retries and the longest delay a call of get_active_close_orders is
\* given
MaxRetries == 4
MaxDelay == 2

(***************************************************************************)
(* Configuration (TradingConfig) and literals of the code.                 *)
(***************************************************************************)
\* TradingConfig.quantity: one full order, in halves
quantity == 2
\* TradingConfig.take_profit, in halves of the third decimal
take_profit == 2
\* TradingConfig.wait_time: 30 seconds
wait_time == 3
\* the timeout of fill_event.wait: 10 seconds
FillTimeout == 1
\* the longest sleep of run(): 10 seconds
SleepCap == 1

\* TradingConfig.direction and TradingConfig.symbol
direction == "BUY"
symbol == "ETHUSDC"
Directions == {"BUY", "SELL"}

None == << >>
Some(v) == <<v>>
Val(o) == o[1]

\* The average prices the exchange may report when an open order has executed
\* completely; after half of it, PartialPrice.  QueuePrice is the price the
\* exchange gives an order placed with priceMatch QUEUE on the close side.
FillPrices == {OrderPrice, OrderPrice + 3}
PartialPrice == OrderPrice + 3
QueuePrice == OrderPrice + 1

Min(a, b) == IF a < b THEN a ELSE b
Range(s) == {s[k] : k \in 1..Len(s)}

VARIABLES
    \* ---- control loop (TradingBot), private to its thread ----
    pc,                   \* position of the control loop
    active_close_orders,  \* list of order ids (0 is the sentinel)
    skip_waiting_time,
    close_order,          \* close_order["orderId"], optional
    order_status,         \* "None", "FILLED", "PARTIALLY_FILLED", "CANCELLED"
    since_open,           \* time.time() - last_open_order_time, saturating at wait_time
    wait_time_l,          \* local wait_time of run()
    order,                \* local order of _place_and_monitor_open_order: its id, optional
    executedQty,          \* canceled_order["executedQty"], optional (None: no response)
    branch,               \* the branch lines 370-381 took: "none", "FILLED",
                          \* "PARTIALLY_FILLED", "CANCELLED", "error"
    price_arg,            \* the price argument evaluated for _place_close_order, optional
    \* ---- shared between the threads ----
    order_monitor,        \* OrderMonitor
    fill_event,           \* threading.Event: TRUE when set
    \* ---- event listener (WebSocketManager) ----
    lpc,                  \* position of the listener thread
    msg,                  \* the order update being handled, optional
    cumulative_pnl,
    \* ---- TradingLogger ----
    transactions,         \* the rows log_transaction has appended to the CSV file, as a
                          \* bag (nothing reads the file back)
    \* ---- exchange ----
    exch,                 \* sequence of orders; the order id is the index
    queue,                \* ORDER_TRADE_UPDATE events in flight to the listener
    events_left,          \* the number of events the exchange may still emit
    \* ---- history of the current attempt (not program state) ----
    cancel_result,        \* "none", "ok", "filled", "failed"
    saw_filled,           \* the value line 355 read from order_monitor.filled, optional
    fill_in_window,       \* a FILLED event of this attempt's order was handled completely
                          \* after line 337 and before line 355
    woke_by,              \* "none", "signal", "timeout": how the wait of the attempt ended
    outcome,              \* the order_status this attempt has assigned, "none" before
    \* ---- history of the listener (not program state) ----
    signal_by,            \* id of the order whose FILLED event set fill_event (0: not set)
    close_fills,          \* the number of close fills the listener has handled
    close_fill_qty,       \* the sum of their filled quantities
    \* ---- listen key (BinanceClient) and its keep-alive thread ----
    listen_key,           \* BinanceClient._listen_key, optional
    kpc,                  \* position of _refresh_listen_key_thread ("off": not started)
    keys_issued,          \* the number of listen keys the exchange has issued
    dropped_key,          \* history: the key the last failed renewal dropped, optional
    subscribed_key,       \* the listen key WebSocketManager.start subscribed with, optional
    \* ---- the event stream ----
    stream,               \* "up" or "down": the WebSocket connection
    listener_up,          \* FALSE once an exception has left _handle_message
    handled,              \* history: how each call of _handle_message ended, in order
                          \* ("ok", or "caught": an exception reached line 247)
    \* ---- a call of _calculate_wait_time on its own ----
    wt_call,              \* optional: [n, m, out], the list length, max_orders, result
    \* ---- bound ----
    gaco_call,            \* optional: a call of get_active_close_orders on its own
    reset_call,           \* optional: calls of OrderMonitor.reset on its own
    co_call,              \* optional: a call of place_close_order_with_fallback on its own
    open_limit            \* the number of open orders the control loop may place

ctl_vars == <<pc, active_close_orders, skip_waiting_time, close_order, order_status,
              since_open, wait_time_l, order, executedQty, branch, price_arg>>
shared_vars == <<order_monitor, fill_event>>
lst_vars == <<lpc, msg, cumulative_pnl>>
exch_vars == <<exch, queue, events_left>>
att_vars == <<cancel_result, saw_filled, fill_in_window, woke_by, outcome>>
fills_vars == <<close_fills, close_fill_qty>>
ka_vars == <<listen_key, kpc, keys_issued, dropped_key, subscribed_key>>
other_calls == <<co_call, reset_call, gaco_call>>
call_vars == <<wt_call, other_calls>>
fixed_vars == <<stream, listener_up, handled, call_vars, open_limit>>
more_vars == <<ka_vars, fixed_vars>>
vars == <<ctl_vars, shared_vars, lst_vars, transactions, exch_vars, att_vars,
          signal_by, fills_vars, more_vars>>

\* what a step of the control loop that touches only its own state leaves alone
not_ctl == <<shared_vars, lst_vars, transactions, exch_vars, att_vars, signal_by,
             fills_vars, more_vars>>

(***************************************************************************)
(* TradingConfig.close_order_side                                          *)
(***************************************************************************)
CloseOrderSide(d) == IF d = "SELL" THEN "BUY" ELSE "SELL"

close_order_side == CloseOrderSide(direction)

(***************************************************************************)
(* OrderMonitor                                                            *)
(***************************************************************************)
EmptyMonitor ==
    [order_id |-> None, filled |-> FALSE, filled_price |-> None, filled_qty |-> 0]

(***************************************************************************)
(* The exchange.  An order is live while its status is NEW or              *)
(* PARTIALLY_FILLED.                                                       *)
(***************************************************************************)
Live(o) == o.status \in {"NEW", "PARTIALLY_FILLED"}

Ids == 1..Len(exch)

OpenLegIds == {i \in Ids : exch[i].leg = "OPEN"}

NewOrder(leg, side, qty, price, tif) ==
    [leg |-> leg, side |-> side, origQty |-> qty, executedQty |-> 0,
     price |-> price, timeInForce |-> tif, avgPrice |-> 0, status |-> "NEW"]

\* The ORDER_TRADE_UPDATE event of order i in its present state.
OrderEvent(i, o) ==
    [e |-> "ORDER_TRADE_UPDATE", s |-> symbol, i |-> i, S |-> o.side,
     X |-> o.status, ap |-> o.avgPrice, z |-> o.executedQty, q |-> o.origQty,
     bad |-> "none"]

\* Malformed messages.  bad = "json": the text is not JSON; "field": an
\* ORDER_TRADE_UPDATE without its 'o' object; "number": the event of an order
\* whose 'ap' is not the text of a number.
NotJson ==
    [e |-> "", s |-> "", i |-> 0, S |-> "", X |-> "", ap |-> 0, z |-> 0, q |-> 0,
     bad |-> "json"]

NoOrderField ==
    [e |-> "ORDER_TRADE_UPDATE", s |-> "", i |-> 0, S |-> "", X |-> "", ap |-> 0,
     z |-> 0, q |-> 0, bad |-> "field"]

BadNumber(i, o) == [OrderEvent(i, o) EXCEPT !.bad = "number"]

RECURSIVE IdsFrom(_, _)
IdsFrom(i, side) ==
    IF i > Len(exch) THEN << >>
    ELSE (IF Live(exch[i]) /\ exch[i].side = side THEN <<i>> ELSE << >>)
         \o IdsFrom(i + 1, side)

\* A variant of the query that answers from the list the bot holds when it has one.
GetActiveCloseOrdersCached ==
    IF active_close_orders # << >> THEN active_close_orders
    ELSE IdsFrom(1, close_order_side)

\* BinanceClient.get_active_close_orders: the ids of the open orders on the close side
GetActiveCloseOrders == IdsFrom(1, close_order_side)

(***************************************************************************)
(* Python's round(price, 3) on a price counted in halves of the third      *)
(* decimal: an even price is unchanged, an odd one is a tie and goes to    *)
(* the even third decimal.                                                 *)
(***************************************************************************)
Round3(p) ==
    IF p % 2 = 0 THEN p
    ELSE IF ((p - 1) \div 2) % 2 = 0 THEN p - 1 ELSE p + 1

(***************************************************************************)
(* TradingLogger.log_transaction: one row appended to the CSV file.  Every *)
(* price and amount of the model is a multiple of 0.0005, which            *)
(* round(x, 6) leaves unchanged.                                           *)
(***************************************************************************)
LogRow(id, tx_type, price, amount, status, counter) ==
    [id |-> id, type |-> tx_type, price |-> price, amount |-> amount,
     status |-> status, counter |-> counter]

LogTransaction(log, row) == log (+) SetToBag({row})

(***************************************************************************)
(* Initial state: TradingBot.__init__ and WebSocketManager.__init__, with  *)
(* n close-side orders already resting on the exchange, k events the       *)
(* exchange may emit and opens open orders the control loop may place.     *)
(***************************************************************************)
InitOf(k, opens) ==
    /\ pc = "start"
    /\ active_close_orders = << >>
    /\ skip_waiting_time = FALSE
    /\ close_order = None
    /\ order_status = "None"
    /\ since_open = wait_time
    /\ wait_time_l = 0
    /\ order = None
    /\ executedQty = None
    /\ branch = "none"
    /\ price_arg = None
    /\ order_monitor = EmptyMonitor
    /\ fill_event = FALSE
    /\ lpc = "idle"
    /\ msg = None
    /\ cumulative_pnl = 0
    /\ transactions = EmptyBag
    /\ \E n \in 0..max_orders :
          exch = [i \in 1..n |->
                    NewOrder("CLOSE", close_order_side, quantity,
                             OrderPrice + take_profit, "GTX")]
    /\ queue = << >>
    /\ events_left = k
    /\ cancel_result = "none"
    /\ saw_filled = None
    /\ fill_in_window = FALSE
    /\ woke_by = "none"
    /\ outcome = "none"
    /\ signal_by = 0
    /\ close_fills = 0
    /\ close_fill_qty = 0
    /\ listen_key = None
    /\ kpc = "off"
    /\ keys_issued = 0
    /\ dropped_key = None
    /\ subscribed_key = None
    /\ stream = "up"
    /\ listener_up = TRUE
    /\ handled = << >>
    /\ open_limit = opens

\* no function is being called on its own
NoOtherCall == co_call = None /\ reset_call = None /\ gaco_call = None

InitWith(k) == InitOf(k, MaxOpens) /\ wt_call = None /\ NoOtherCall

Init == InitWith(MaxEvents)

InitWide == InitWith(MaxEvents + 1)

(***************************************************************************)
(* TradingBot.run, the first half of an iteration                          *)
(***************************************************************************)
\* A variant of _calculate_wait_time whose burst mode includes the boundary.
CalculateWaitTimeInclusive(n, m) == IF 3 * n <= m THEN 0 ELSE wait_time

\* max_orders / 3 of line 318, a true division: the whole part of the quotient
\* and the thirds left over
ThirdOf(m) == [whole |-> m \div 3, thirds |-> m % 3]

\* the comparison of line 318, an integer against that quotient
BelowQuotient(n, q) == n < q.whole \/ (n = q.whole /\ q.thirds > 0)

\* A variant of _calculate_wait_time that divides with floor division.
CalculateWaitTimeFloorDivision(n, m) == IF n < m \div 3 THEN 0 ELSE wait_time

\* TradingBot._calculate_wait_time: len(active_close_orders) < max_orders / 3
CalculateWaitTime(n, m) == IF BelowQuotient(n, ThirdOf(m)) THEN 0 ELSE wait_time

\* _calculate_wait_time on its own: a bot whose list has n entries and whose
\* max_orders is m
InitWaitTime ==
    /\ InitOf(0, 0)
    /\ NoOtherCall
    /\ \E n \in 0..MaxActive, m \in 1..MaxLimit :
          wt_call = Some([n |-> n, m |-> m, out |-> None])

\* the call of _calculate_wait_time, lines 316-322
CallCalculateWaitTime ==
    /\ wt_call # None
    /\ Val(wt_call).out = None
    /\ wt_call' =
         Some([Val(wt_call) EXCEPT
                 !.out = Some(CalculateWaitTime(Val(wt_call).n, Val(wt_call).m))])
    /\ UNCHANGED <<ctl_vars, shared_vars, lst_vars, transactions, exch_vars, att_vars,
                   signal_by, fills_vars, ka_vars, stream, listener_up, handled, open_limit,
                   other_calls>>

NextWaitTime == CallCalculateWaitTime

SpecWaitTime == InitWaitTime /\ [][NextWaitTime]_vars

\* Variants of the admission check the claims about it must tell apart from it:
\* the limit compared with <=, and no limit at all.
AdmittedUpToLimit(n, elapsed, wt, skip) == n <= max_orders /\ (elapsed >= wt \/ skip)

AdmittedNoLimit(n, elapsed, wt, skip) == elapsed >= wt \/ skip

\* the admission check of run(), lines 452-454
Admitted(n, elapsed, wt, skip) == n < max_orders /\ (elapsed >= wt \/ skip)

\* BinanceClient.get_listen_key on cached key `key` when the exchange has issued
\* `issued` keys: the key returned (and cached) and the number issued after it
GetListenKey(key, issued) ==
    IF key = None THEN <<Some(issued + 1), issued + 1>> ELSE <<key, issued>>

\* lines 433-444: WebSocketManager.start subscribes with the listen key, the
\* keep-alive thread is started, and the active close orders are queried
RunStart ==
    /\ pc = "start"
    /\ listen_key' = GetListenKey(listen_key, keys_issued)[1]
    /\ keys_issued' = GetListenKey(listen_key, keys_issued)[2]
    /\ subscribed_key' = GetListenKey(listen_key, keys_issued)[1]
    /\ kpc' = "sleep"
    /\ active_close_orders' = GetActiveCloseOrders
    /\ pc' = "loop"
    /\ UNCHANGED <<skip_waiting_time, close_order, order_status, since_open,
                   wait_time_l, order, executedQty, branch, price_arg, shared_vars,
                   lst_vars, transactions, exch_vars, att_vars, signal_by, fills_vars,
                   dropped_key, fixed_vars>>

\* lines 448-455: the wait time and the admission check of one iteration
LoopTop ==
    /\ pc = "loop"
    /\ LET wt == CalculateWaitTime(Len(active_close_orders), max_orders) IN
         /\ wait_time_l' = wt
         /\ IF Admitted(Len(active_close_orders), since_open, wt, skip_waiting_time)
            THEN /\ Cardinality(OpenLegIds) < open_limit
                 /\ pc' = "place_open"
            ELSE pc' = "query"
    /\ UNCHANGED <<active_close_orders, skip_waiting_time, close_order, order_status,
                   since_open, order, executedQty, branch, price_arg, not_ctl>>

(***************************************************************************)
(* TradingBot._place_and_monitor_open_order                                *)
(***************************************************************************)
\* lines 328-333: BinanceClient.place_open_order succeeds
PlaceOpenOrder ==
    /\ pc = "place_open"
    /\ exch' = Append(exch, NewOrder("OPEN", direction, quantity, OrderPrice, "GTC"))
    /\ order' = Some(Len(exch) + 1)
    /\ pc' = "reset_order_id"
    /\ UNCHANGED <<active_close_orders, skip_waiting_time, close_order, order_status,
                   since_open, wait_time_l, executedQty, branch, price_arg, shared_vars,
                   lst_vars, transactions, queue, events_left, att_vars, signal_by,
                   fills_vars, more_vars>>

\* lines 328, 347-349: place_open_order raises; the error is logged, False returned
PlaceOpenOrderFails ==
    /\ pc = "place_open"
    /\ pc' = "query"
    /\ UNCHANGED <<active_close_orders, skip_waiting_time, close_order, order_status,
                   since_open, wait_time_l, order, executedQty, branch, price_arg,
                   not_ctl>>

\* The next position of OrderMonitor.reset, one assignment at a time.
ResetNext(p) ==
    CASE p = "reset_order_id" -> "reset_filled"
      [] p = "reset_filled" -> "reset_price"
      [] p = "reset_price" -> "reset_qty"
      [] p = "reset_qty" -> "set_order_id"

\* A variant of reset whose second assignment flips the fill flag.
ResetFieldFlipsFilled(m, p) ==
    CASE p = "reset_order_id" -> [m EXCEPT !.order_id = None]
      [] p = "reset_filled" -> [m EXCEPT !.filled = ~m.filled]
      [] p = "reset_price" -> [m EXCEPT !.filled_price = None]
      [] p = "reset_qty" -> [m EXCEPT !.filled_qty = 0]

\* The field a position of OrderMonitor.reset assigns, and the value.
ResetField(m, p) ==
    CASE p = "reset_order_id" -> [m EXCEPT !.order_id = None]
      [] p = "reset_filled" -> [m EXCEPT !.filled = FALSE]
      [] p = "reset_price" -> [m EXCEPT !.filled_price = None]
      [] p = "reset_qty" -> [m EXCEPT !.filled_qty = 0]

\* what a step of the control loop that only writes the monitor leaves alone
not_monitor == <<active_close_orders, skip_waiting_time, close_order, order_status,
                 since_open, wait_time_l, order, executedQty, branch, price_arg,
                 fill_event, lst_vars, transactions, exch_vars, att_vars, signal_by,
                 fills_vars, more_vars>>

\* line 336: OrderMonitor.reset (lines 49-54), one assignment per step
MonitorReset ==
    /\ pc \in {"reset_order_id", "reset_filled", "reset_price", "reset_qty"}
    /\ order_monitor' = ResetField(order_monitor, pc)
    /\ pc' = ResetNext(pc)
    /\ UNCHANGED not_monitor

\* line 337
SetOrderId ==
    /\ pc = "set_order_id"
    /\ order_monitor' = [order_monitor EXCEPT !.order_id = order]
    /\ pc' = "clear_event"
    /\ UNCHANGED not_monitor

\* lines 338-339: fill_event.clear() and the time of this attempt
ClearEvent ==
    /\ pc = "clear_event"
    /\ fill_event' = FALSE
    /\ signal_by' = 0
    /\ since_open' = 0
    /\ pc' = "wait"
    /\ UNCHANGED <<active_close_orders, skip_waiting_time, close_order, order_status,
                   wait_time_l, order, executedQty, branch, price_arg, order_monitor,
                   lst_vars, transactions, exch_vars, att_vars, fills_vars, more_vars>>

\* line 342: fill_event.wait returns because the event is set
WaitSignalled ==
    /\ pc = "wait"
    /\ fill_event
    /\ woke_by' = "signal"
    /\ pc' = "check_filled"
    /\ UNCHANGED <<active_close_orders, skip_waiting_time, close_order, order_status,
                   since_open, wait_time_l, order, executedQty, branch, price_arg,
                   shared_vars, lst_vars, transactions, exch_vars, cancel_result,
                   saw_filled, fill_in_window, outcome, signal_by, fills_vars, more_vars>>

\* line 342: fill_event.wait(timeout=10) runs to its timeout
WaitTimeout ==
    /\ pc = "wait"
    /\ ~fill_event
    /\ woke_by' = "timeout"
    /\ since_open' = Min(since_open + FillTimeout, wait_time)
    /\ pc' = "check_filled"
    /\ UNCHANGED <<active_close_orders, skip_waiting_time, close_order, order_status,
                   wait_time_l, order, executedQty, branch, price_arg, shared_vars,
                   lst_vars, transactions, exch_vars, cancel_result, saw_filled,
                   fill_in_window, outcome, signal_by, fills_vars, more_vars>>

(***************************************************************************)
(* TradingBot._handle_order_result                                         *)
(***************************************************************************)
\* A variant of the check after the wait that trusts the reason the wait ended
\* instead of reading the fill flag again.
CheckFilledTrustsWake ==
    /\ pc = "check_filled"
    /\ executedQty' = None
    /\ saw_filled' = Some(woke_by = "signal")
    /\ pc' = IF woke_by = "signal" THEN "process" ELSE "cancel"
    /\ UNCHANGED <<active_close_orders, skip_waiting_time, close_order, order_status,
                   since_open, wait_time_l, order, branch, price_arg, shared_vars,
                   lst_vars, transactions, exch_vars, cancel_result, fill_in_window,
                   woke_by, outcome, signal_by, fills_vars, more_vars>>

\* lines 353-355: canceled_order = None and the first read of the fill flag
CheckFilled ==
    /\ pc = "check_filled"
    /\ executedQty' = None
    /\ saw_filled' = Some(order_monitor.filled)
    /\ pc' = IF order_monitor.filled THEN "process" ELSE "cancel"
    /\ UNCHANGED <<active_close_orders, skip_waiting_time, close_order, order_status,
                   since_open, wait_time_l, order, branch, price_arg, shared_vars,
                   lst_vars, transactions, exch_vars, cancel_result, fill_in_window,
                   woke_by, outcome, signal_by, fills_vars, more_vars>>

\* what a cancel request leaves alone, whatever its result
not_cancel == <<active_close_orders, skip_waiting_time, close_order, order_status,
                since_open, wait_time_l, order, branch, price_arg, shared_vars,
                lst_vars, transactions, queue, events_left, saw_filled, fill_in_window,
                woke_by, outcome, signal_by, fills_vars, more_vars>>

\* lines 357-361: the exchange cancels the live order and reports what it executed
CancelOrder ==
    /\ pc = "cancel"
    /\ Live(exch[Val(order)])
    /\ exch' = [exch EXCEPT ![Val(order)].status = "CANCELED"]
    /\ executedQty' = Some(exch[Val(order)].executedQty)
    /\ cancel_result' = "ok"
    /\ pc' = "process"
    /\ UNCHANGED not_cancel

\* lines 357, 362-364: cancel_order raises because the order has filled
CancelAlreadyFilled ==
    /\ pc = "cancel"
    /\ exch[Val(order)].status = "FILLED"
    /\ cancel_result' = "filled"
    /\ pc' = "recl_filled"
    /\ UNCHANGED <<exch, executedQty, not_cancel>>

\* lines 357, 362-364: cancel_order raises for another reason (the request did not
\* reach the exchange); except Exception takes the same path
CancelRequestFails ==
    /\ pc = "cancel"
    /\ Live(exch[Val(order)])
    /\ cancel_result' = "failed"
    /\ pc' = "recl_filled"
    /\ UNCHANGED <<exch, executedQty, not_cancel>>

\* The next position of the reclassification, lines 365-367.
ReclassifyNext(p) ==
    CASE p = "recl_filled" -> "recl_qty"
      [] p = "recl_qty" -> "recl_price"
      [] p = "recl_price" -> "process"

\* The field a position of the reclassification assigns, and the value.
ReclassifyField(m, p) ==
    CASE p = "recl_filled" -> [m EXCEPT !.filled = TRUE]
      [] p = "recl_qty" -> [m EXCEPT !.filled_qty = quantity]
      [] p = "recl_price" -> [m EXCEPT !.filled_price = Some(exch[Val(order)].price)]

\* lines 365-367, one assignment per step
Reclassify ==
    /\ pc \in {"recl_filled", "recl_qty", "recl_price"}
    /\ order_monitor' = ReclassifyField(order_monitor, pc)
    /\ pc' = ReclassifyNext(pc)
    /\ UNCHANGED not_monitor

\* The branch lines 370-381 take on the fill flag and the cancel response:
\* "error" when canceled_order is None (None.get raises).
ResultBranch(filled, executed) ==
    IF filled THEN "FILLED"
    ELSE IF executed = None THEN "error"
    ELSE IF Val(executed) > 0 THEN "PARTIALLY_FILLED"
    ELSE "CANCELLED"

\* lines 370-371, 374-377: the second read of the fill flag chooses the branch;
\* lines 380-391: the CANCELLED branch, which touches no shared state
ProcessResult ==
    /\ pc = "process"
    /\ LET b == ResultBranch(order_monitor.filled, executedQty) IN
         /\ branch' = b
         /\ CASE b \in {"FILLED", "PARTIALLY_FILLED"} ->
                   /\ pc' = "close_price"
                   /\ UNCHANGED <<order_status, close_order, active_close_orders,
                                  transactions, outcome>>
              [] b = "CANCELLED" ->
                   /\ order_status' = "CANCELLED"
                   /\ outcome' = "CANCELLED"
                   /\ close_order' = None
                   /\ active_close_orders' = Append(active_close_orders, 0)
                   /\ transactions' =
                        LogTransaction(transactions,
                                       LogRow(Val(order), "OPEN",
                                              exch[Val(order)].price, 0, "CANCELLED",
                                              None))
                   /\ pc' = "query"
              [] b = "error" ->
                   /\ pc' = "query"
                   /\ UNCHANGED <<order_status, close_order, active_close_orders,
                                  transactions, outcome>>
    /\ UNCHANGED <<skip_waiting_time, since_open, wait_time_l, order, executedQty,
                   price_arg, shared_vars, lst_vars, exch_vars, cancel_result,
                   saw_filled, fill_in_window, woke_by, signal_by, fills_vars, more_vars>>

\* lines 372, 378: the price argument is read from the monitor; line 398 adds
\* take_profit to it, which raises when it is None (caught at line 347)
ClosePrice ==
    /\ pc = "close_price"
    /\ price_arg' = order_monitor.filled_price
    /\ pc' = IF order_monitor.filled_price = None THEN "query" ELSE "place_close"
    /\ UNCHANGED <<active_close_orders, skip_waiting_time, close_order, order_status,
                   since_open, wait_time_l, order, executedQty, branch, not_ctl>>

\* filled_amount of lines 371 and 375
FilledAmount(b, o, executed) ==
    IF b = "FILLED" THEN o.origQty ELSE Val(executed)

(***************************************************************************)
(* TradingBot._place_close_order, and what follows it in                   *)
(* _handle_order_result (the status, the transaction row)                  *)
(***************************************************************************)
\* A variant of the close request that leaves the take-profit offset out.
CloseRequestNoOffset(qty, price) ==
    NewOrder("CLOSE", close_order_side, qty, Round3(price), "GTX")

\* The close order _place_close_order asks for: BinanceClient.
\* place_close_order_with_fallback sends it post only (GTX) at round(price, 3).
CloseRequest(qty, price) ==
    NewOrder("CLOSE", close_order_side, qty, Round3(price + take_profit), "GTX")

\* The order the fallback of place_close_order_with_fallback asks for: priceMatch
\* QUEUE, so the exchange chooses the price.
FallbackRequest(qty) ==
    NewOrder("CLOSE", close_order_side, qty, QueuePrice, "GTC")

\* lines 404-405, 373/379, 386-391 once the exchange has accepted close order c
ClosePlaced(c) ==
    LET id == Len(exch) + 1
        amount == FilledAmount(branch, exch[Val(order)], executedQty) IN
    /\ exch' = Append(exch, c)
    /\ close_order' = Some(id)
    /\ active_close_orders' = Append(active_close_orders, id)
    /\ order_status' = branch
    /\ outcome' = branch
    /\ transactions' =
         LogTransaction(transactions,
                        LogRow(Val(order), "OPEN", exch[Val(order)].price, amount,
                               branch, Some(id)))
    /\ pc' = "query"
    /\ UNCHANGED <<skip_waiting_time, since_open, wait_time_l, order, executedQty,
                   branch, price_arg, shared_vars, lst_vars, queue, events_left,
                   cancel_result, saw_filled, fill_in_window, woke_by, signal_by,
                   fills_vars, more_vars>>

\* lines 172-182: the post-only order is accepted
PlaceCloseOrder ==
    /\ pc = "place_close"
    /\ ClosePlaced(CloseRequest(FilledAmount(branch, exch[Val(order)], executedQty),
                                Val(price_arg)))

\* lines 183-194: the post-only order is rejected, the fallback is accepted
PlaceCloseOrderFallback ==
    /\ pc = "place_close"
    /\ ClosePlaced(FallbackRequest(FilledAmount(branch, exch[Val(order)], executedQty)))

\* lines 183-194, 347-349: the fallback raises too; the error is logged
PlaceCloseOrderFails ==
    /\ pc = "place_close"
    /\ pc' = "query"
    /\ UNCHANGED <<active_close_orders, skip_waiting_time, close_order, order_status,
                   since_open, wait_time_l, order, executedQty, branch, price_arg,
                   not_ctl>>

(***************************************************************************)
(* TradingBot.run, the second half of an iteration                         *)
(***************************************************************************)
\* TradingBot._update_skip_waiting_logic
UpdateSkipWaiting(co, active, status) ==
    IF co # None /\ Val(co) \notin Range(active) THEN TRUE
    ELSE IF status = "CANCELLED" THEN TRUE
    ELSE FALSE

\* A variant of the end of the iteration that paces whatever the skip-wait flag.
AfterUpdateAlwaysPaces(n, skip, elapsed, wt) ==
    IF n >= max_orders THEN "sleep_max"
    ELSE IF elapsed < wt THEN "sleep_pace"
    ELSE "loop"

\* lines 472-480: where the iteration goes after the update
AfterUpdate(n, skip, elapsed, wt) ==
    IF n >= max_orders THEN "sleep_max"
    ELSE IF ~skip /\ elapsed < wt THEN "sleep_pace"
    ELSE "loop"

\* The locals of _place_and_monitor_open_order and _handle_order_result are dead
\* once it has returned, and the history of the attempt ends with it.
AttemptOver ==
    /\ order' = None
    /\ executedQty' = None
    /\ branch' = "none"
    /\ price_arg' = None
    /\ cancel_result' = "none"
    /\ saw_filled' = None
    /\ fill_in_window' = FALSE
    /\ woke_by' = "none"
    /\ outcome' = "none"

\* lines 458-480: the query of the active close orders, the skip-wait update (on
\* the list of before the query), the new list, and the choice of the sleep
QueryAndUpdate ==
    /\ pc = "query"
    /\ LET latest == GetActiveCloseOrders
           skip == UpdateSkipWaiting(close_order, active_close_orders, order_status) IN
         /\ skip_waiting_time' = skip
         /\ active_close_orders' = latest
         /\ pc' = AfterUpdate(Len(latest), skip, since_open, wait_time_l)
    /\ AttemptOver
    /\ UNCHANGED <<close_order, order_status, since_open, wait_time_l, shared_vars,
                   lst_vars, transactions, exch_vars, signal_by, fills_vars, more_vars>>

\* lines 442 and 458, 484-490: get_active_close_orders raises after its retries;
\* run() logs, stops the listener and re-raises.  At line 442 the listener and
\* the keep-alive thread have been started (lines 433-439).
QueryFails ==
    /\ pc \in {"start", "query"}
    /\ pc' = "crashed"
    /\ listen_key' = IF pc = "start" THEN GetListenKey(listen_key, keys_issued)[1]
                     ELSE listen_key
    /\ keys_issued' = IF pc = "start" THEN GetListenKey(listen_key, keys_issued)[2]
                      ELSE keys_issued
    /\ subscribed_key' = IF pc = "start" THEN GetListenKey(listen_key, keys_issued)[1]
                         ELSE subscribed_key
    /\ kpc' = IF pc = "start" THEN "sleep" ELSE kpc
    /\ UNCHANGED <<active_close_orders, skip_waiting_time, close_order, order_status,
                   since_open, wait_time_l, order, executedQty, branch, price_arg,
                   shared_vars, lst_vars, transactions, exch_vars, att_vars, signal_by,
                   fills_vars, dropped_key, fixed_vars>>

\* lines 433, 484-490: WebSocketManager.start raises (new_listen_key or the
\* connection fails) before the keep-alive thread is started; run() logs, calls
\* stop() and re-raises
StartFails ==
    /\ pc = "start"
    /\ pc' = "crashed"
    /\ UNCHANGED <<active_close_orders, skip_waiting_time, close_order, order_status,
                   since_open, wait_time_l, order, executedQty, branch, price_arg,
                   not_ctl>>

\* A variant of the sleep whose pacing pause takes no time.
SleepTimeNoPause(p, elapsed, wt) == IF p = "sleep_max" THEN SleepCap ELSE 0

\* the time the sleep of line 473 or of lines 479-480 takes
SleepTime(p, elapsed, wt) ==
    IF p = "sleep_max" THEN SleepCap ELSE Min(SleepCap, wt - elapsed)

\* lines 473 and 480: time.sleep
Sleep ==
    /\ pc \in {"sleep_max", "sleep_pace"}
    /\ since_open' = Min(since_open + SleepTime(pc, since_open, wait_time_l), wait_time)
    /\ pc' = "loop"
    /\ UNCHANGED <<active_close_orders, skip_waiting_time, close_order, order_status,
                   wait_time_l, order, executedQty, branch, price_arg, not_ctl>>

(***************************************************************************)
(* WebSocketManager: the listener thread                                   *)
(***************************************************************************)
\* A variant of the close fill handler that adds the offset once per fill,
\* whatever the quantity.
HandleCloseOrderFillPerFill(m) ==
    /\ transactions' =
         LogTransaction(transactions, LogRow(m.i, "CLOSE", m.ap, m.q, "FILLED", None))
    /\ cumulative_pnl' = cumulative_pnl + take_profit

\* WebSocketManager._handle_close_order_fill: the row and the profit
HandleCloseOrderFill(m) ==
    /\ transactions' =
         LogTransaction(transactions, LogRow(m.i, "CLOSE", m.ap, m.q, "FILLED", None))
    /\ cumulative_pnl' = cumulative_pnl + take_profit * m.q

\* A variant of the dispatch without the test of the instrument.
DispatchAnySymbol(m, tracked) ==
    IF m.e # "ORDER_TRADE_UPDATE" THEN "ignore"
    ELSE IF Some(m.i) = tracked THEN "update"
    ELSE IF m.S = close_order_side /\ m.X = "FILLED" THEN "close"
    ELSE "ignore"

\* lines 233-245: what _handle_message does with event m given the tracked
\* id: "update" (_handle_order_update), "close" or "ignore"
Dispatch(m, tracked) ==
    IF m.e # "ORDER_TRADE_UPDATE" THEN "ignore"
    ELSE IF m.s # symbol THEN "ignore"
    ELSE IF Some(m.i) = tracked THEN "update"
    ELSE IF m.S = close_order_side /\ m.X = "FILLED" THEN "close"
    ELSE "ignore"

\* History: what kind of event the handler was given.  "foreign": not an order
\* update of the configured symbol ("foreign_tracked" when it carries the
\* tracked id); "other_status": an update of the tracked order that reports no
\* execution; "ok": any other.
HandledAs(m, tracked) ==
    IF m.e # "ORDER_TRADE_UPDATE" \/ m.s # symbol
    THEN (IF Some(m.i) = tracked THEN "foreign_tracked" ELSE "foreign")
    ELSE IF Some(m.i) = tracked /\ m.X \notin {"FILLED", "PARTIALLY_FILLED"}
         THEN "other_status"
    ELSE "ok"

\* The base classes of the exceptions a message can raise in the handler
\* (json.JSONDecodeError is a ValueError; KeyError is a LookupError).
ExceptionBases(e) ==
    CASE e = "JSONDecodeError" -> {"JSONDecodeError", "ValueError", "Exception"}
      [] e = "ValueError" -> {"ValueError", "Exception"}
      [] e = "KeyError" -> {"KeyError", "LookupError", "Exception"}

\* A variant of the handler's except clause that names ValueError only.
CatchesValueErrorOnly(e) == "ValueError" \in ExceptionBases(e)

\* lines 247-248: except Exception
Catches(e) == "Exception" \in ExceptionBases(e)

\* The exception message m raises in _handle_message before anything is
\* written ("none": none): json.loads at line 232, msg['o'] at line 236,
\* float(order['ap']) at line 271 (the arguments of log_transaction are
\* evaluated before the call).
MessageError(m, tracked) ==
    IF m.bad = "json" THEN "JSONDecodeError"
    ELSE IF m.bad = "field" THEN "KeyError"
    ELSE IF m.bad = "number" /\ Dispatch(m, tracked) = "close" THEN "ValueError"
    ELSE "none"

\* float(order['ap']) of lines 255 and 264 raises ValueError
ConversionRaises(p, m) == p \in {"upd_price", "part_price"} /\ m.bad = "number"

\* A variant of _handle_order_update that takes a partial fill for a fill.
UpdateStartAnyFill(status) ==
    IF status \in {"FILLED", "PARTIALLY_FILLED"} THEN "upd_filled" ELSE "idle"

\* A variant of _handle_order_update that takes every final status for a fill.
UpdateStartAnyFinal(status) ==
    IF status = "PARTIALLY_FILLED" THEN "part_qty"
    ELSE IF status = "NEW" THEN "idle"
    ELSE "upd_filled"

\* lines 252-253, 262: where _handle_order_update starts for a status
UpdateStart(status) ==
    IF status = "FILLED" THEN "upd_filled"
    ELSE IF status = "PARTIALLY_FILLED" THEN "part_qty"
    ELSE "idle"

\* WebSocketManager._handle_message, lines 229-245: the next event is taken and
\* compared with the tracked order id
HandleMessage ==
    /\ lpc = "idle"
    /\ pc # "crashed"
    /\ stream = "up"
    /\ listener_up
    /\ queue # << >>
    /\ MessageError(Head(queue), order_monitor.order_id) = "none"
    /\ queue' = Tail(queue)
    /\ handled' = Append(handled, HandledAs(Head(queue), order_monitor.order_id))
    /\ LET m == Head(queue)
           d == Dispatch(m, order_monitor.order_id) IN
         CASE d = "update" ->
                /\ lpc' = UpdateStart(m.X)
                /\ msg' = IF UpdateStart(m.X) = "idle" THEN None ELSE Some(m)
                /\ UNCHANGED <<transactions, cumulative_pnl, fills_vars>>
           [] d = "close" ->
                /\ HandleCloseOrderFill(m)
                /\ close_fills' = close_fills + 1
                /\ close_fill_qty' = close_fill_qty + m.z
                /\ UNCHANGED <<lpc, msg>>
           [] d = "ignore" ->
                UNCHANGED <<lpc, msg, transactions, cumulative_pnl, fills_vars>>
    /\ UNCHANGED <<ctl_vars, shared_vars, exch, events_left, att_vars, signal_by,
                   ka_vars, stream, listener_up, call_vars, open_limit>>

\* lines 232-237, 271 and 247-248: a message that raises before anything is
\* written; the exception is logged and the handler returns, or leaves it
HandleMalformed ==
    /\ lpc = "idle"
    /\ pc # "crashed"
    /\ stream = "up"
    /\ listener_up
    /\ queue # << >>
    /\ MessageError(Head(queue), order_monitor.order_id) # "none"
    /\ queue' = Tail(queue)
    /\ handled' = Append(handled, "caught")
    /\ listener_up' = Catches(MessageError(Head(queue), order_monitor.order_id))
    /\ UNCHANGED <<ctl_vars, shared_vars, lst_vars, transactions, exch, events_left,
                   att_vars, signal_by, fills_vars, ka_vars, stream, call_vars,
                   open_limit>>

\* A variant of _handle_order_update that sets the signal before the quantity
\* is written (the assignment of line 256 is never reached).
UpdateNextSignalEarly(p) ==
    CASE p = "upd_filled" -> "upd_price"
      [] p = "upd_price" -> "upd_set"
      [] p = "upd_qty" -> "upd_set"
      [] p = "part_qty" -> "part_price"
      [] p = "part_price" -> "idle"

\* The next position of _handle_order_update.
UpdateNext(p) ==
    CASE p = "upd_filled" -> "upd_price"
      [] p = "upd_price" -> "upd_qty"
      [] p = "upd_qty" -> "upd_set"
      [] p = "part_qty" -> "part_price"
      [] p = "part_price" -> "idle"

\* The field a position of _handle_order_update assigns (lines 254-256, 263-264).
UpdateField(mon, p, m) ==
    CASE p = "upd_filled" -> [mon EXCEPT !.filled = TRUE]
      [] p = "upd_price" -> [mon EXCEPT !.filled_price = Some(m.ap)]
      [] p = "upd_qty" -> [mon EXCEPT !.filled_qty = m.z]
      [] p = "part_qty" -> [mon EXCEPT !.filled_qty = m.z]
      [] p = "part_price" -> [mon EXCEPT !.filled_price = Some(m.ap)]

\* WebSocketManager._handle_order_update, lines 254-256 and 263-264, one
\* assignment per step
HandleOrderUpdate ==
    /\ lpc \in {"upd_filled", "upd_price", "upd_qty", "part_qty", "part_price"}
    /\ ~ConversionRaises(lpc, Val(msg))
    /\ order_monitor' = UpdateField(order_monitor, lpc, Val(msg))
    /\ lpc' = UpdateNext(lpc)
    /\ msg' = IF UpdateNext(lpc) = "idle" THEN None ELSE msg
    /\ UNCHANGED <<ctl_vars, fill_event, cumulative_pnl, transactions, exch_vars,
                   att_vars, signal_by, fills_vars, more_vars>>

\* lines 255 and 264, 247-248: float(order['ap']) raises; the assignments
\* before it stay, those after it and the signal of line 260 are not reached
HandleOrderUpdateRaises ==
    /\ lpc \in {"upd_filled", "upd_price", "upd_qty", "part_qty", "part_price"}
    /\ ConversionRaises(lpc, Val(msg))
    /\ lpc' = "idle"
    /\ msg' = None
    /\ handled' = [handled EXCEPT ![Len(handled)] = "caught"]
    /\ listener_up' = Catches("ValueError")
    /\ UNCHANGED <<ctl_vars, shared_vars, cumulative_pnl, transactions, exch_vars,
                   att_vars, signal_by, fills_vars, ka_vars, stream, call_vars,
                   open_limit>>

\* line 260: fill_event.set()
SetFillEvent ==
    /\ lpc = "upd_set"
    /\ fill_event' = TRUE
    /\ signal_by' = Val(msg).i
    /\ fill_in_window' =
         (fill_in_window
            \/ (order = Some(Val(msg).i)
                  /\ pc \in {"clear_event", "wait", "check_filled"}))
    /\ lpc' = "idle"
    /\ msg' = None
    /\ UNCHANGED <<ctl_vars, order_monitor, cumulative_pnl, transactions, exch_vars,
                   cancel_result, saw_filled, woke_by, outcome, fills_vars, more_vars>>

(***************************************************************************)
(* The exchange: executions of resting orders, each reported by an         *)
(* ORDER_TRADE_UPDATE event.                                               *)
(***************************************************************************)
Executed(o, qty, ap) ==
    [o EXCEPT !.executedQty = qty, !.avgPrice = ap,
              !.status = IF qty = o.origQty THEN "FILLED" ELSE "PARTIALLY_FILLED"]

Report(i, o) ==
    /\ events_left > 0
    /\ events_left' = events_left - 1
    /\ exch' = [exch EXCEPT ![i] = o]
    /\ queue' = Append(queue, OrderEvent(i, o))
    /\ UNCHANGED <<ctl_vars, shared_vars, lst_vars, transactions, att_vars, signal_by,
                   fills_vars, more_vars>>

\* half of an open order executes
ExchPartialFill ==
    \E i \in Ids :
        /\ exch[i].leg = "OPEN"
        /\ exch[i].status = "NEW"
        /\ Report(i, Executed(exch[i], 1, PartialPrice))

\* an open order executes completely
ExchFill ==
    \E i \in Ids, ap \in FillPrices :
        /\ exch[i].leg = "OPEN"
        /\ Live(exch[i])
        /\ Report(i, Executed(exch[i], exch[i].origQty, ap))

\* a close order executes completely, at its price
ExchCloseFill ==
    \E i \in Ids :
        /\ exch[i].leg = "CLOSE"
        /\ Live(exch[i])
        /\ Report(i, Executed(exch[i], exch[i].origQty, exch[i].price))

Control ==
    \/ RunStart \/ LoopTop \/ PlaceOpenOrder \/ PlaceOpenOrderFails \/ MonitorReset
    \/ SetOrderId \/ ClearEvent \/ WaitSignalled \/ WaitTimeout \/ CheckFilled
    \/ CancelOrder \/ CancelAlreadyFilled \/ CancelRequestFails \/ Reclassify
    \/ ProcessResult \/ ClosePrice \/ PlaceCloseOrder \/ PlaceCloseOrderFallback
    \/ PlaceCloseOrderFails \/ QueryAndUpdate \/ QueryFails \/ StartFails \/ Sleep

\* A variant of the listener that also takes the close orders the exchange has
\* filled out of the bot's list.
ListenerRemovesClosed ==
    \/ HandleMessage \/ HandleOrderUpdate \/ SetFillEvent
    \/ /\ lpc = "idle"
       /\ \E k \in 1..Len(active_close_orders) :
             /\ active_close_orders[k] \in Ids
             /\ exch[active_close_orders[k]].status = "FILLED"
             /\ active_close_orders' =
                  SubSeq(active_close_orders, 1, k - 1)
                      \o SubSeq(active_close_orders, k + 1, Len(active_close_orders))
       /\ UNCHANGED <<pc, skip_waiting_time, close_order, order_status, since_open,
                      wait_time_l, order, executedQty, branch, price_arg, not_ctl>>

Listener == HandleMessage \/ HandleOrderUpdate \/ SetFillEvent

Exchange == ExchPartialFill \/ ExchFill \/ ExchCloseFill

Next == Control \/ Listener \/ Exchange

Spec == Init /\ [][Next]_vars

\* the same program with one more event of the exchange
SpecWide == InitWide /\ [][Next]_vars

(***************************************************************************)
(* The transport of the user data stream.  WebSocketManager.start          *)
(* subscribes once (lines 219-221); the class has no on_close or on_error  *)
(* callback and nothing calls start again, so no action brings a dropped   *)
(* stream back.                                                            *)
(***************************************************************************)
\* the connection opened at line 221 is lost
StreamDrops ==
    /\ pc \notin {"start", "crashed"}
    /\ stream = "up"
    /\ stream' = "down"
    /\ UNCHANGED <<ctl_vars, shared_vars, lst_vars, transactions, exch_vars, att_vars,
                   signal_by, fills_vars, ka_vars, listener_up, handled, call_vars, open_limit>>

NextStream == Next \/ StreamDrops

(***************************************************************************)
(* TradingBot._refresh_listen_key_thread and BinanceClient.renew_listen_key *)
(* beside a control loop that places no open order.  Only this thread      *)
(* touches the cached key once run() has started it.                       *)
(***************************************************************************)
\* A variant of the thread whose loop is left by an exception.
AfterKeepAliveErrorExits == "dead"

\* lines 308-314: the except clause is inside the while loop, so after an
\* exception of renew_listen_key the thread sleeps again
AfterKeepAliveError == "sleep"

KeepAliveRuns == kpc \notin {"off", "dead"} /\ pc # "crashed"

\* line 310: time.sleep(30 * 60) returns
KeepAliveWake ==
    /\ KeepAliveRuns
    /\ kpc = "sleep"
    /\ kpc' = "renew"
    /\ UNCHANGED <<ctl_vars, shared_vars, lst_vars, transactions, exch_vars, att_vars,
                   signal_by, fills_vars, listen_key, keys_issued, dropped_key,
                   subscribed_key,
                   fixed_vars>>

\* lines 133-134, 312: the exchange renews the cached key (the request needs a
\* key: with None cached the client raises before it sends anything)
RenewOk ==
    /\ KeepAliveRuns
    /\ kpc = "renew"
    /\ listen_key # None
    /\ kpc' = "sleep"
    /\ UNCHANGED <<ctl_vars, shared_vars, lst_vars, transactions, exch_vars, att_vars,
                   signal_by, fills_vars, listen_key, keys_issued, dropped_key,
                   subscribed_key,
                   fixed_vars>>

\* lines 135-137: the renewal raises; the cached key is dropped
RenewFails ==
    /\ KeepAliveRuns
    /\ kpc = "renew"
    /\ listen_key' = None
    /\ dropped_key' = IF listen_key = None THEN dropped_key ELSE listen_key
    /\ kpc' = "reacquire"
    /\ UNCHANGED <<ctl_vars, shared_vars, lst_vars, transactions, exch_vars, att_vars,
                   signal_by, fills_vars, keys_issued, subscribed_key,
                   fixed_vars>>

\* line 138, 312: get_listen_key obtains a new key
ReacquireOk ==
    /\ KeepAliveRuns
    /\ kpc = "reacquire"
    /\ keys_issued < MaxKeys
    /\ listen_key' = GetListenKey(listen_key, keys_issued)[1]
    /\ keys_issued' = GetListenKey(listen_key, keys_issued)[2]
    /\ kpc' = "sleep"
    /\ UNCHANGED <<ctl_vars, shared_vars, lst_vars, transactions, exch_vars, att_vars,
                   signal_by, fills_vars, dropped_key, subscribed_key,
                   fixed_vars>>

\* line 138, 313-314: new_listen_key raises too; the exception leaves
\* renew_listen_key and is logged by the thread
ReacquireFails ==
    /\ KeepAliveRuns
    /\ kpc = "reacquire"
    /\ kpc' = AfterKeepAliveError
    /\ UNCHANGED <<ctl_vars, shared_vars, lst_vars, transactions, exch_vars, att_vars,
                   signal_by, fills_vars, listen_key, keys_issued, dropped_key,
                   subscribed_key,
                   fixed_vars>>

KeepAlive == KeepAliveWake \/ RenewOk \/ RenewFails \/ ReacquireOk \/ ReacquireFails

InitKeepAlive == InitOf(0, 0) /\ wt_call = None /\ NoOtherCall

NextKeepAlive ==
    \/ RunStart \/ StartFails \/ LoopTop \/ QueryAndUpdate \/ QueryFails \/ Sleep
    \/ KeepAlive

SpecKeepAlive == InitKeepAlive /\ [][NextKeepAlive]_vars

(***************************************************************************)
(* Malformed messages on the stream: the bot with one open order to place, *)
(* and a stream that may deliver, besides the events of the exchange,      *)
(* text that is not JSON, an event without its order object, and the event *)
(* of an order with a non-numeric average price.                           *)
(***************************************************************************)
DeliverMalformed(m) ==
    /\ pc # "start"
    /\ events_left > 0
    /\ events_left' = events_left - 1
    /\ queue' = Append(queue, m)
    /\ UNCHANGED <<ctl_vars, shared_vars, lst_vars, transactions, exch, att_vars,
                   signal_by, fills_vars, more_vars>>

ReportNotJson == DeliverMalformed(NotJson)

ReportNoOrderField == DeliverMalformed(NoOrderField)

ReportBadNumber == \E i \in Ids : DeliverMalformed(BadNumber(i, exch[i]))

InitMalformed == InitOf(MaxEvents + 1, 1) /\ wt_call = None /\ NoOtherCall

NextMalformed ==
    \/ Next
    \/ HandleMalformed \/ HandleOrderUpdateRaises
    \/ ReportNotJson \/ ReportNoOrderField \/ ReportBadNumber

SpecMalformed == InitMalformed /\ [][NextMalformed]_vars

\* The two threads are scheduled by the operating system: each keeps taking
\* its steps while it has one to take.
SpecStream == Init /\ [][NextStream]_vars /\ WF_vars(Control) /\ WF_vars(Listener)

(***************************************************************************)
(* BinanceClient.place_close_order_with_fallback on its own: one call,     *)
(* with every symbol, quantity, price and side of the bounded sets, and    *)
(* every pair of answers of the exchange to the requests it may send.      *)
(***************************************************************************)
Symbols == {"ETHUSDC", "BTCUSDC"}

\* lines 173-182: the parameters of the post-only request
PostOnlyRequest(sym, qty, price, side) ==
    [symbol |-> sym, side |-> side, positionSide |-> "BOTH", type |-> "LIMIT",
     quantity |-> qty, price |-> Some(Round3(price)), priceMatch |-> None,
     reduceOnly |-> TRUE, timeInForce |-> "GTX"]

\* A variant of the fallback that sends the rejected request again.
QueueRequestRetriesPostOnly(sym, qty, price, side) ==
    PostOnlyRequest(sym, qty, price, side)

\* lines 185-194: the parameters of the fallback request
QueueRequest(sym, qty, price, side) ==
    [symbol |-> sym, side |-> side, positionSide |-> "BOTH", type |-> "LIMIT",
     quantity |-> qty, price |-> None, priceMatch |-> Some("QUEUE"),
     reduceOnly |-> TRUE, timeInForce |-> "GTC"]

InitCloseCall ==
    /\ InitOf(0, 0)
    /\ wt_call = None
    /\ reset_call = None
    /\ gaco_call = None
    /\ \E sym \in Symbols, qty \in 1..quantity, price \in 1..MaxClosePrice,
          side \in Directions, a1 \in {"ok", "reject"}, a2 \in {"ok", "reject"} :
          co_call = Some([symbol |-> sym, qty |-> qty, price |-> price,
                          side |-> side, answers |-> <<a1, a2>>, sent |-> << >>,
                          at |-> "try"])

\* lines 172-182: the post-only request is sent; new_order returns or raises
CloseCallPostOnly ==
    /\ co_call # None
    /\ Val(co_call).at = "try"
    /\ LET c == Val(co_call) IN
         co_call' =
           Some([c EXCEPT
                   !.sent = Append(c.sent,
                                   PostOnlyRequest(c.symbol, c.qty, c.price, c.side)),
                   !.at = IF c.answers[1] = "ok" THEN "returned" ELSE "except"])
    /\ UNCHANGED <<ctl_vars, shared_vars, lst_vars, transactions, exch_vars, att_vars,
                   signal_by, fills_vars, ka_vars, stream, listener_up, handled,
                   wt_call, reset_call, gaco_call, open_limit>>

\* lines 183-194: the fallback request is sent; new_order returns or raises,
\* and nothing catches what it raises
CloseCallFallback ==
    /\ co_call # None
    /\ Val(co_call).at = "except"
    /\ LET c == Val(co_call) IN
         co_call' =
           Some([c EXCEPT
                   !.sent = Append(c.sent,
                                   QueueRequest(c.symbol, c.qty, c.price, c.side)),
                   !.at = IF c.answers[2] = "ok" THEN "returned" ELSE "raised"])
    /\ UNCHANGED <<ctl_vars, shared_vars, lst_vars, transactions, exch_vars, att_vars,
                   signal_by, fills_vars, ka_vars, stream, listener_up, handled,
                   wt_call, reset_call, gaco_call, open_limit>>

NextCloseCall == CloseCallPostOnly \/ CloseCallFallback

SpecCloseCall == InitCloseCall /\ [][NextCloseCall]_vars

(***************************************************************************)
(* OrderMonitor.reset on its own: called twice in a row on every monitor   *)
(* state of the bounded sets, with no other thread in between.             *)
(***************************************************************************)
\* OrderMonitor.reset as one call: its four assignments in order
RECURSIVE ResetFrom(_, _)
ResetFrom(m, p) ==
    IF p = "set_order_id" THEN m ELSE ResetFrom(ResetField(m, p), ResetNext(p))

Reset(m) == ResetFrom(m, "reset_order_id")

\* the states an OrderMonitor can be in
Monitors ==
    [order_id : {None} \cup {Some(i) : i \in 1..MaxOpens},
     filled : BOOLEAN,
     filled_price : {None} \cup {Some(p) : p \in FillPrices},
     filled_qty : 0..quantity]

InitReset ==
    /\ InitOf(0, 0)
    /\ wt_call = None
    /\ co_call = None
    /\ gaco_call = None
    /\ \E m \in Monitors : reset_call = Some([before |-> m, after |-> << >>])

\* one more call of reset(), on the state the previous call left
CallReset ==
    /\ reset_call # None
    /\ Len(Val(reset_call).after) < 2
    /\ LET c == Val(reset_call)
           now == IF c.after = << >> THEN c.before ELSE c.after[Len(c.after)] IN
         reset_call' = Some([c EXCEPT !.after = Append(c.after, Reset(now))])
    /\ UNCHANGED <<ctl_vars, shared_vars, lst_vars, transactions, exch_vars, att_vars,
                   signal_by, fills_vars, ka_vars, stream, listener_up, handled,
                   wt_call, co_call, gaco_call, open_limit>>

NextReset == CallReset

SpecReset == InitReset /\ [][NextReset]_vars

(***************************************************************************)
(* Events the handler has nothing to do with: the bot with one open order  *)
(* to place, and a stream that also delivers updates of an order that      *)
(* report no execution (NEW, CANCELED, REJECTED, EXPIRED), events of       *)
(* another kind and order updates of another instrument, each with the id  *)
(* of an order of the bot.                                                 *)
(***************************************************************************)
OtherStatuses == {"NEW", "CANCELED", "REJECTED", "EXPIRED"}

DeliverEvent(m) ==
    /\ pc # "start"
    /\ events_left > 0
    /\ events_left' = events_left - 1
    /\ queue' = Append(queue, m)
    /\ UNCHANGED <<ctl_vars, shared_vars, lst_vars, transactions, exch, att_vars,
                   signal_by, fills_vars, more_vars>>

\* an order update with a status that is not an execution
ReportOtherStatus ==
    \E i \in Ids, st \in OtherStatuses :
        DeliverEvent([OrderEvent(i, exch[i]) EXCEPT !.X = st])

\* the FILLED update of an order with the same id on another instrument
ReportOtherSymbol ==
    \E i \in Ids :
        DeliverEvent([OrderEvent(i, Executed(exch[i], exch[i].origQty, exch[i].price))
                        EXCEPT !.s = "BTCUSDC"])

\* an event of another kind that carries the same fields
ReportOtherKind ==
    \E i \in Ids :
        DeliverEvent([OrderEvent(i, Executed(exch[i], exch[i].origQty, exch[i].price))
                        EXCEPT !.e = "TRADE_LITE"])

InitOtherEvents == InitOf(MaxEvents + 1, 1) /\ wt_call = None /\ NoOtherCall

NextOtherEvents == Next \/ ReportOtherStatus \/ ReportOtherSymbol \/ ReportOtherKind

SpecOtherEvents == InitOtherEvents /\ [][NextOtherEvents]_vars

(***************************************************************************)
(* BinanceClient.get_active_close_orders on its own: one call, with every  *)
(* retries and delay of the bounded sets, and every sequence of answers of *)
(* the exchange to the requests it may send: a failure, or a listing of    *)
(* the open orders.                                                        *)
(***************************************************************************)
\* the open orders client.get_orders may list
Listings ==
    {<<[orderId |-> 1, side |-> "SELL"], [orderId |-> 2, side |-> "BUY"]>>,
     <<[orderId |-> 3, side |-> "BUY"]>>}

\* what client.get_orders may do: raise, or return a listing
Answers ==
    {[raises |-> TRUE, orders |-> << >>]}
        \cup {[raises |-> FALSE, orders |-> l] : l \in Listings}

\* lines 146-150: the ids of the listed orders of the close side, in order
RECURSIVE CloseSideIds(_, _)
CloseSideIds(orders, side) ==
    IF orders = << >> THEN << >>
    ELSE (IF Head(orders).side = side THEN <<Head(orders).orderId>> ELSE << >>)
         \o CloseSideIds(Tail(orders), side)

\* A variant of the pause that doubles with every failed attempt.
BackoffExponential(delay, attempt) == delay * (2 ^ attempt)

\* line 153: the pause after the failed attempt (attempt counts from 0)
Backoff(delay, attempt) == delay * (attempt + 1)

\* line 152: another attempt follows this one
MoreAttempts(attempt, retries) == attempt < retries - 1

InitActiveCall ==
    /\ InitOf(0, 0)
    /\ wt_call = None
    /\ co_call = None
    /\ reset_call = None
    /\ \E side \in Directions, retries \in 0..MaxRetries, delay \in 1..MaxDelay,
          answers \in [1..MaxRetries -> Answers] :
          gaco_call = Some([close_order_side |-> side, retries |-> retries,
                            delay |-> delay, answers |-> answers, attempt |-> 0,
                            calls |-> 0, slept |-> << >>, at |-> "for",
                            out |-> None, err |-> None])

\* lines 143-150: the loop takes its next attempt and sends the request, which
\* returns a listing or raises; a range that is used up ends the loop, and the
\* function returns None ("fell_through")
ActiveCallTry ==
    /\ gaco_call # None
    /\ Val(gaco_call).at = "for"
    /\ LET c == Val(gaco_call)
           answer == c.answers[c.attempt + 1] IN
         gaco_call' =
           Some(IF c.attempt >= c.retries
                  THEN [c EXCEPT !.at = "fell_through"]
                ELSE IF answer.raises
                  THEN [c EXCEPT !.calls = @ + 1, !.at = "except",
                                 !.err = Some(c.attempt + 1)]
                ELSE [c EXCEPT !.calls = @ + 1, !.at = "returned",
                               !.out = Some(CloseSideIds(answer.orders, c.close_order_side))])
    /\ UNCHANGED <<ctl_vars, shared_vars, lst_vars, transactions, exch_vars, att_vars,
                   signal_by, fills_vars, ka_vars, stream, listener_up, handled,
                   wt_call, co_call, reset_call, open_limit>>

\* lines 151-155: the handler pauses and lets the loop go on, or raises again
\* what it caught
ActiveCallExcept ==
    /\ gaco_call # None
    /\ Val(gaco_call).at = "except"
    /\ LET c == Val(gaco_call) IN
         gaco_call' =
           Some(IF MoreAttempts(c.attempt, c.retries)
                  THEN [c EXCEPT !.slept = Append(@, Backoff(c.delay, c.attempt)),
                                 !.attempt = @ + 1, !.at = "for", !.err = None]
                ELSE [c EXCEPT !.at = "raised"])
    /\ UNCHANGED <<ctl_vars, shared_vars, lst_vars, transactions, exch_vars, att_vars,
                   signal_by, fills_vars, ka_vars, stream, listener_up, handled,
                   wt_call, co_call, reset_call, open_limit>>

NextActiveCall == ActiveCallTry \/ ActiveCallExcept

SpecActiveCall == InitActiveCall /\ [][NextActiveCall]_vars

(***************************************************************************)
(* The bot on an exchange whose calls succeed: no request raises, except   *)
(* the cancel request for an order that has filled and the post-only       *)
(* request the exchange rejects before it accepts the fallback.  The       *)
(* control loop and the listener are threads the scheduler keeps running;  *)
(* nothing makes the exchange execute an order.                            *)
(***************************************************************************)
ControlAnswered ==
    \/ RunStart \/ LoopTop \/ PlaceOpenOrder \/ MonitorReset \/ SetOrderId
    \/ ClearEvent \/ WaitSignalled \/ WaitTimeout \/ CheckFilled \/ CancelOrder
    \/ CancelAlreadyFilled \/ Reclassify \/ ProcessResult \/ ClosePrice
    \/ PlaceCloseOrder \/ PlaceCloseOrderFallback \/ QueryAndUpdate \/ Sleep

NextAnswered == ControlAnswered \/ Listener \/ Exchange

SpecAnswered ==
    Init /\ [][NextAnswered]_vars /\ WF_vars(ControlAnswered) /\ WF_vars(Listener)

(***************************************************************************)
(* Properties                                                              *)
(***************************************************************************)
\* the open orders that are live on the exchange
LiveOpenOrders == {i \in OpenLegIds : Live(exch[i])}

\* the CLOSE/FILLED rows of the transaction log, and their number
CloseRows == {r \in BagToSet(transactions) : r.type = "CLOSE" /\ r.status = "FILLED"}

CloseRowCount == BagCardinality([r \in CloseRows |-> CopiesIn(r, transactions)])

\* the control loop is between the end of the wait and the end of the attempt
\* that classified the present open order
Classified == order # None /\ outcome # "none"

\* C1: the control loop is about to send an open order (it stands between the
\* admission check of lines 452-454 and the request of line 328) only if
\* active_close_orders, which nothing changes in between, has fewer than
\* max_orders entries, whatever the skip-wait flag and the elapsed time are.
C1_AdmissionBelowLimit ==
    pc = "place_open" => Len(active_close_orders) < max_orders

\* C1 witness: an open order is admitted on the skip-wait flag alone, before the
\* wait time has elapsed.
C1_Witness ==
    /\ pc = "place_open"
    /\ skip_waiting_time
    /\ since_open < wait_time_l
    /\ Len(active_close_orders) = max_orders - 1

\* C2: when the cancel request failed because the order had filled and the
\* attempt has recorded its outcome, the outcome is FILLED, the monitor's
\* filled_qty is the configured quantity, and no 0 sentinel is in the list.
C2_CancelAfterFill ==
    (Classified /\ cancel_result = "filled" /\ pc = "query") =>
        /\ outcome = "FILLED"
        /\ order_status = "FILLED"
        /\ order_monitor.filled_qty = quantity
        /\ 0 \notin Range(active_close_orders)

\* C3: when the wait was ended by the signal of a FILLED event of the tracked
\* order, the flag, the price and the quantity of the monitor are written: the
\* listener sets the signal after the three assignments.
C3_WritesBeforeSignal ==
    (/\ pc \in {"wait", "check_filled"}
     /\ fill_event
     /\ order # None
     /\ signal_by = Val(order)) =>
        /\ order_monitor.filled
        /\ order_monitor.filled_qty > 0
        /\ order_monitor.filled_price # None

\* C3 witness: the wait has returned on the signal of the tracked order's FILLED
\* event.
C3_Witness ==
    /\ pc = "check_filled"
    /\ woke_by = "signal"
    /\ order # None
    /\ signal_by = Val(order)
    /\ order_monitor.filled_qty = quantity

\* C4: when the control loop has read the fill flag true after its wait, the
\* monitor's price and quantity are those of the order's FILLED event.
C4_NoTornRead ==
    (pc = "process" /\ saw_filled = Some(TRUE)) =>
        /\ exch[Val(order)].status = "FILLED"
        /\ order_monitor.filled_price = Some(exch[Val(order)].avgPrice)
        /\ order_monitor.filled_qty = exch[Val(order)].executedQty

\* C5: when a FILLED event of the tracked order was handled completely after
\* line 337 and before the check of line 355, no cancel request is sent and
\* the attempt is classified FILLED, however the wait ended.
C5_FillInWindow ==
    fill_in_window =>
        /\ cancel_result = "none"
        /\ pc \notin {"cancel", "recl_filled", "recl_qty", "recl_price"}
        /\ saw_filled \in {None, Some(TRUE)}
        /\ branch \in {"none", "FILLED"}
        /\ outcome \in {"none", "FILLED"}
        /\ (pc \in {"close_price", "place_close", "query"} => branch = "FILLED")

\* C5 witness: the FILLED event was handled before the signal was cleared, the
\* wait ran to its timeout, and the attempt is recorded FILLED.
C5_Witness ==
    /\ fill_in_window
    /\ woke_by = "timeout"
    /\ pc = "query"
    /\ outcome = "FILLED"

\* C6: while the present attempt's order has not executed at all, the monitor
\* holds nothing but its order id and the signal is not set once the reset and
\* the clear have run; and an attempt classified FILLED without a cancel
\* request is one whose order has filled.
C6_NoStaleState ==
    /\ (/\ pc \in {"wait", "check_filled"}
        /\ order # None
        /\ exch[Val(order)].status = "NEW") =>
           /\ order_monitor = [EmptyMonitor EXCEPT !.order_id = order]
           /\ ~fill_event
    /\ (order # None /\ branch = "FILLED" /\ cancel_result = "none") =>
           exch[Val(order)].status = "FILLED"

\* C7: at most one open order of the bot is live on the exchange.
C7_OneOpenOrderInFlight == Cardinality(LiveOpenOrders) <= 1

\* C8: active_close_orders never has more than max_orders entries (the
\* exchange holds at most max_orders close orders initially, and only the bot
\* places close orders).
C8_ListWithinLimit == Len(active_close_orders) <= max_orders

\* C8 witness: the list is full right after the control loop has appended a
\* close order id or the 0 sentinel to it.
C8_Witness ==
    /\ pc = "query"
    /\ outcome \in {"FILLED", "PARTIALLY_FILLED", "CANCELLED"}
    /\ Len(active_close_orders) = max_orders
    /\ active_close_orders[max_orders] \in {0, Len(exch)}

\* C9 as stated: the close order of an attempt recorded FILLED is on the
\* opposite side, has the open order's original quantity, and is priced at the
\* fill price plus take_profit.
C9_AsStated ==
    (Classified /\ outcome = "FILLED" /\ pc = "query") =>
        /\ exch[Val(close_order)].side \in Directions \ {direction}
        /\ exch[Val(close_order)].origQty = exch[Val(order)].origQty
        /\ exch[Val(close_order)].price = Val(price_arg) + take_profit

\* C9, amended: the close order of an attempt recorded FILLED is on the
\* opposite side (BUY gives SELL, SELL gives BUY) and has the open order's
\* original quantity; it is either the post-only order, priced at
\* round(p + take_profit, 3) for the price p the control loop read from the
\* monitor, or the fallback order, priced by the exchange; p is the average
\* price of the order's FILLED event when that event was handled completely
\* before the check of the fill flag.
C9_CloseOrder ==
    /\ \A d \in Directions : CloseOrderSide(d) \in Directions \ {d}
    /\ (Classified /\ outcome = "FILLED" /\ pc = "query") =>
        LET c == exch[Val(close_order)] IN
          /\ c.leg = "CLOSE"
          /\ c.side \in Directions \ {direction}
          /\ c.origQty = exch[Val(order)].origQty
          /\ c.timeInForce \in {"GTX", "GTC"}
          /\ c.timeInForce = "GTX" => c.price = Round3(Val(price_arg) + take_profit)
          /\ c.timeInForce = "GTC" => c.price = QueuePrice
          /\ fill_in_window => price_arg = Some(exch[Val(order)].avgPrice)

\* C9 witness: a post-only close order for a fill at a price whose sum with
\* take_profit has a fourth decimal.
C9_Witness ==
    /\ Classified
    /\ outcome = "FILLED"
    /\ pc = "query"
    /\ fill_in_window
    /\ exch[Val(close_order)].timeInForce = "GTX"
    /\ Round3(Val(price_arg) + take_profit) # Val(price_arg) + take_profit

WaitTimeCalled(n, m) ==
    /\ wt_call # None
    /\ Val(wt_call).n = n
    /\ Val(wt_call).m = m
    /\ Val(wt_call).out # None

\* C11 as stated: with max_orders = 75 and exactly 25 active close orders the
\* wait time computed is 0.
C11_AsStated == WaitTimeCalled(25, 75) => Val(wt_call).out = Some(0)

\* C11, amended: the wait time computed is 0 exactly when the number of active
\* close orders is strictly below a third of max_orders, and the configured
\* wait_time otherwise; with max_orders = 75, 24 active close orders give 0 and
\* exactly 25 give wait_time.
C11_WaitTimeAtBoundary ==
    (wt_call # None /\ Val(wt_call).out # None) =>
        LET n == Val(wt_call).n
            m == Val(wt_call).m
            out == Val(Val(wt_call).out) IN
          /\ out \in {0, wait_time}
          /\ out = 0 <=> 3 * n < m
          /\ (m = 75 /\ n = 24) => out = 0
          /\ (m = 75 /\ n = 25) => out = wait_time

\* C11 witness: the call with max_orders = 75 and 25 active close orders has
\* returned the configured wait_time.
C11_Witness == WaitTimeCalled(25, 75) /\ Val(wt_call).out = Some(wait_time)

\* the present attempt's wait timed out, line 355 read the fill flag False, and
\* the cancel request succeeded with nothing executed; the attempt is over
TimedOutUnfilled ==
    /\ pc = "query"
    /\ order # None
    /\ woke_by = "timeout"
    /\ saw_filled = Some(FALSE)
    /\ cancel_result = "ok"
    /\ executedQty = Some(0)

\* C12: an attempt whose wait timed out with no fill recorded and whose cancel
\* request succeeded with executed quantity 0 is recorded CANCELLED, has placed
\* no close order, and makes the skip-wait update that follows set the flag.
C12_TimeoutCancelled ==
    TimedOutUnfilled =>
        /\ branch = "CANCELLED"
        /\ outcome = "CANCELLED"
        /\ order_status = "CANCELLED"
        /\ close_order = None
        /\ UpdateSkipWaiting(close_order, active_close_orders, order_status)

\* C13: after the skip-wait update of an iteration (the list is then the result
\* of that iteration's query) the flag is true exactly if the latest close
\* order's id is not in that result or the latest open order was CANCELLED.
C13_SkipOnFreshQuery ==
    pc \in {"loop", "sleep_max", "sleep_pace"} =>
        skip_waiting_time =
            UpdateSkipWaiting(close_order, active_close_orders, order_status)

\* C14: an iteration that ends with the skip-wait flag true and fewer than
\* max_orders active close orders does not sleep, and the control loop's next
\* step from the top of the loop with that flag and that count is to place an
\* open order, whatever time has passed since the last attempt.
C14_SkipBypassesPacing ==
    [][/\ (/\ pc = "query"
           /\ pc' \notin {"query", "crashed"}
           /\ skip_waiting_time'
           /\ Len(active_close_orders') < max_orders) => pc' = "loop"
       /\ (/\ pc = "loop"
           /\ pc' # "loop"
           /\ skip_waiting_time
           /\ Len(active_close_orders) < max_orders) => pc' = "place_open"]_vars

\* C14 witness: an open order is being placed right after a cancelled attempt,
\* before the pacing wait has elapsed and without a sleep in between.
C14_Witness ==
    /\ pc = "place_open"
    /\ skip_waiting_time
    /\ order_status = "CANCELLED"
    /\ since_open < wait_time_l
    /\ since_open = FillTimeout

\* the OPEN rows the transaction log holds for open order i
OpenRowsOf(i) == {r \in BagToSet(transactions) : r.type = "OPEN" /\ r.id = i}

OpenRowCount(i) == BagCardinality([r \in OpenRowsOf(i) |-> CopiesIn(r, transactions)])

\* C15: when the attempt that placed an open order on the exchange is over (the
\* control loop is at the query that follows it), the transaction log holds
\* exactly one OPEN row for that order, whatever the outcome of the attempt.
C15_OneOpenRowPerOrder ==
    (pc = "query" /\ order # None) => OpenRowCount(Val(order)) = 1

\* the close orders sent to the exchange after open order i was placed (the
\* control loop places at most one, in the attempt of i)
CloseOrdersFor(i) == {c \in Ids : c > i /\ exch[c].leg = "CLOSE"}

\* C16: when the attempt of an open order is over and the exchange has executed
\* some quantity of that order, a close order has been placed for it.
C16_ExecutedLegHasCloseOrder ==
    (pc = "query" /\ order # None /\ exch[Val(order)].executedQty > 0) =>
        CloseOrdersFor(Val(order)) # {}

\* C17: a failure of the active-close-orders query of the main loop (all its
\* retries exhausted) does not end the control loop.
C17_QueryFailureSurvived == [][pc = "query" => pc' # "crashed"]_vars

\* C18: in a run in which the control loop keeps running, a dropped event
\* stream is eventually subscribed again, so that events reach the handler.
C18_StreamRestored ==
    []<><<Control>>_vars => (stream = "down" ~> stream = "up")

\* C19: no malformed message ends the listener.  The handler is never left by
\* an exception; after a message whose exception was caught it is back at the
\* top, holding no message; and whenever it is at the top with a message
\* waiting on a live stream, it can take that message.
C19_ListenerSurvivesMalformed ==
    /\ listener_up
    /\ (handled # << >> /\ handled[Len(handled)] = "caught") =>
           (lpc = "idle" /\ msg = None)
    /\ (lpc = "idle" /\ queue # << >> /\ stream = "up" /\ pc # "crashed") =>
           ENABLED (HandleMessage \/ HandleMalformed)

\* C19 witness: a malformed message was caught, and the close fill event that
\* came after it was logged.
C19_Witness ==
    /\ handled = <<"caught", "ok">>
    /\ close_fills = 1
    /\ CloseRowCount = 1
    /\ listener_up

\* C20: the keep-alive thread, once started, is never ended by a failure of a
\* renewal or of a re-acquisition; a failed renewal leaves no key cached until
\* a new one is obtained; a key cached after a failed renewal is the newest
\* the exchange has issued, not the one that was dropped; and with no key
\* cached the next renewal goes on to obtain one.
C20_KeepAliveSurvives ==
    /\ [](/\ kpc \in {"off", "sleep", "renew", "reacquire"}
          /\ (pc \notin {"start", "crashed"}) => kpc # "off"
          /\ (kpc = "reacquire") => listen_key = None
          /\ (listen_key # None) =>
                 /\ Val(listen_key) = keys_issued
                 /\ listen_key # dropped_key)
    /\ [][/\ (kpc = "renew" /\ kpc' # "renew" /\ listen_key = None) =>
                 kpc' = "reacquire"
          /\ (kpc = "reacquire" /\ kpc' # "reacquire") =>
                 /\ kpc' = "sleep"
                 /\ listen_key' \in {None, Some(keys_issued + 1)}]_vars

\* C20 witness: a renewal failed and dropped key 1, the thread has obtained
\* key 2 in its place and is sleeping until the next renewal.
C20_Witness ==
    /\ kpc = "sleep"
    /\ dropped_key = Some(1)
    /\ listen_key = Some(2)
    /\ keys_issued = 2

C22_TornDownOnExit ==
    (pc = "crashed") =>
        /\ ~ENABLED HandleMessage
        /\ kpc \notin {"sleep", "renew", "reacquire"}

\* C23: whatever the monitor held, one call of reset() leaves order_id None,
\* filled false, filled_price None and filled_qty 0, and a second call right
\* after it leaves the same state.
C23_ResetIdempotent ==
    (reset_call # None) =>
        LET after == Val(reset_call).after IN
          /\ (Len(after) >= 1) =>
                 after[1] = [order_id |-> None, filled |-> FALSE,
                             filled_price |-> None, filled_qty |-> 0]
          /\ (Len(after) = 2) => after[2] = after[1]

\* C23 witness: reset() has been called twice on a monitor that tracked an
\* order and held a fill.
C23_Witness ==
    /\ reset_call # None
    /\ Len(Val(reset_call).after) = 2
    /\ Val(reset_call).before.order_id # None
    /\ Val(reset_call).before.filled
    /\ Val(reset_call).before.filled_price # None
    /\ Val(reset_call).before.filled_qty = quantity

\* C24: the listener enters _handle_order_update only with an event whose id
\* is the tracked one; it is at the FILLED branch only with a FILLED event and
\* at the other branch only with a PARTIALLY_FILLED one; the fill signal goes
\* up only at line 260 of the FILLED branch; and a step of the listener on a
\* PARTIALLY_FILLED event changes nothing of the monitor but filled_qty and
\* filled_price, and not the signal.
C24_SignalOnlyOnFilled ==
    /\ [](/\ (lpc # "idle") => msg # None
          /\ (lpc \in {"upd_filled", "upd_price", "upd_qty", "upd_set"}) =>
                 Val(msg).X = "FILLED"
          /\ (lpc \in {"part_qty", "part_price"}) =>
                 Val(msg).X = "PARTIALLY_FILLED")
    /\ [][/\ (lpc = "idle" /\ lpc' # "idle") =>
                 /\ Some(Head(queue).i) = order_monitor.order_id
                 /\ msg' = Some(Head(queue))
          /\ (~fill_event /\ fill_event') =>
                 /\ lpc = "upd_set"
                 /\ Val(msg).X = "FILLED"
                 /\ signal_by' = Val(msg).i
          /\ (lpc \in {"part_qty", "part_price"} /\ lpc' # lpc) =>
                 /\ order_monitor'.filled = order_monitor.filled
                 /\ order_monitor'.order_id = order_monitor.order_id
                 /\ fill_event' = fill_event
                 /\ lpc' \in {"part_price", "idle"}]_vars

\* C24 witness: the PARTIALLY_FILLED event of the tracked order has been
\* handled: quantity and price are written, the flag and the signal are not.
C24_Witness ==
    /\ lpc = "idle"
    /\ handled = <<"ok">>
    /\ order # None
    /\ order_monitor.order_id = order
    /\ exch[Val(order)].status = "PARTIALLY_FILLED"
    /\ order_monitor.filled_qty = 1
    /\ order_monitor.filled_price = Some(PartialPrice)
    /\ ~order_monitor.filled
    /\ ~fill_event

\* the handler takes the next event of the stream in this step
TakesEvent == queue # << >> /\ queue' = Tail(queue)

\* C25: an update of the tracked order whose status is neither FILLED nor
\* PARTIALLY_FILLED is done with when it has been dispatched: the handler is
\* back at its top, and the monitor and the fill signal are as they were; the
\* body of _handle_order_update never runs on such an event.
C25_OtherStatusWritesNothing ==
    /\ [](lpc # "idle" => Val(msg).X \in {"FILLED", "PARTIALLY_FILLED"})
    /\ [][(/\ TakesEvent
           /\ Head(queue).e = "ORDER_TRADE_UPDATE"
           /\ Head(queue).s = symbol
           /\ Some(Head(queue).i) = order_monitor.order_id
           /\ Head(queue).X \in OtherStatuses) =>
              /\ lpc' = "idle"
              /\ msg' = None
              /\ UNCHANGED <<order_monitor, fill_event>>]_vars

\* C25 witness: a CANCELED update of the tracked order has been handled while
\* the control loop waits for that order.
C25_Witness ==
    /\ handled = <<"other_status">>
    /\ queue = << >>
    /\ pc = "wait"
    /\ order_monitor = [EmptyMonitor EXCEPT !.order_id = order]
    /\ ~fill_event

\* C26: an event that is not an order update, or is one of another
\* instrument, is done with when it has been taken: the handler is back at
\* its top, and the monitor, the fill signal, cumulative_pnl and the
\* transaction log are as they were, whatever order id it carries.
C26_ForeignEventWritesNothing ==
    [][(/\ TakesEvent
        /\ \/ Head(queue).e # "ORDER_TRADE_UPDATE"
           \/ Head(queue).s # symbol) =>
           /\ lpc' = "idle"
           /\ msg' = None
           /\ UNCHANGED <<order_monitor, fill_event, cumulative_pnl, transactions>>]_vars

\* C26 witness: an event of another instrument that carries the tracked id
\* has been handled while the control loop waits for that order.
C26_Witness ==
    /\ handled = <<"foreign_tracked">>
    /\ queue = << >>
    /\ pc = "wait"
    /\ order_monitor = [EmptyMonitor EXCEPT !.order_id = order]
    /\ ~fill_event
    /\ transactions = EmptyBag

\* the fill fields of the monitor are the same after this step
FillFieldsUnchanged ==
    /\ order_monitor'.filled = order_monitor.filled
    /\ order_monitor'.filled_price = order_monitor.filled_price
    /\ order_monitor'.filled_qty = order_monitor.filled_qty

\* this step is a step of the control loop
ControlStep == pc' # pc

\* C27: no step of the control loop outside reset() and the
\* assignment of the tracked id changes filled, filled_price or filled_qty.
C27_ListenerOnlyWriter ==
    [][(/\ ControlStep
        /\ pc \notin {"reset_order_id", "reset_filled", "reset_price", "reset_qty",
                      "set_order_id"}) => FillFieldsUnchanged]_vars

\* C28: when the attempt of an open order is over, the flag was read false
\* after the wait and the cancel request succeeded reporting an executed
\* quantity above 0, the attempt is recorded PARTIALLY_FILLED and a close order
\* for that quantity has been placed.
C28_PartialFillClosed ==
    (/\ pc = "query"
     /\ order # None
     /\ saw_filled = Some(FALSE)
     /\ cancel_result = "ok"
     /\ executedQty # None
     /\ Val(executedQty) > 0) =>
        /\ outcome = "PARTIALLY_FILLED"
        /\ order_status = "PARTIALLY_FILLED"
        /\ \E c \in CloseOrdersFor(Val(order)) : exch[c].origQty = Val(executedQty)

\* C29: when an attempt was reclassified FILLED after the cancel request
\* failed because the order had filled, and its post-only close order was
\* accepted, that close order is priced at the open order's price plus
\* take_profit (rounded to the third decimal).
C29_ReclassifiedClosePrice ==
    (/\ pc = "query"
     /\ order # None
     /\ cancel_result = "filled"
     /\ outcome = "FILLED"
     /\ close_order # None
     /\ exch[Val(close_order)].timeInForce = "GTX") =>
        exch[Val(close_order)].price = Round3(exch[Val(order)].price + take_profit)

\* C30: for every number of active close orders and every max_orders, the wait
\* time computed is 0 exactly when three times the number of active close
\* orders is below max_orders, and the configured wait_time otherwise.
C30_WaitTimeZeroIffBelowThird ==
    \A n \in 0..MaxActive, m \in 1..MaxLimit :
        WaitTimeCalled(n, m) =>
            /\ (3 * n < m) => Val(wt_call).out = Some(0)
            /\ (3 * n >= m) => Val(wt_call).out = Some(wait_time)

\* C30 witness: with max_orders = 25, not a multiple of three, and 8 active
\* close orders (3 * 8 = 24 < 25) the call has returned 0.
C30_Witness == WaitTimeCalled(8, 25) /\ Val(wt_call).out = Some(0)

\* the answers the exchange gave to the requests of the call, in order
AnswersGiven(c) == [k \in 1..c.calls |-> c.answers[k]]

C32_ListHasOneContext ==
    [][active_close_orders' # active_close_orders =>
          /\ ControlStep
          /\ lpc' = lpc
          /\ msg' = msg
          /\ queue' = queue
          /\ close_fills' = close_fills]_vars

\* C32 witness: the listener has handled the fill of a close order while the
\* control loop, about to process the result of an attempt and to append to
\* its list, still holds the id of that order in it.
C32_Witness ==
    /\ close_fills = 1
    /\ pc = "process"
    /\ order # None
    /\ \E k \in 1..Len(active_close_orders) :
          /\ active_close_orders[k] \in Ids
          /\ exch[active_close_orders[k]].status = "FILLED"

\* the positions of the control loop between the assignment of the list queried
\* (line 442 or 466) and the next admission check
BeforeAdmission == pc \in {"loop", "sleep_max", "sleep_pace"}

\* C33: the control loop reaches an admission check only from the initial query
\* or from the update of an iteration, directly or through the sleep; that step
\* leaves in active_close_orders exactly the close-side orders live on the
\* exchange when it queried, nothing changes the list from there to the
\* admission check and the wait-time computation, and so the list checked holds
\* no 0 sentinel and no id appended locally.
C33_ListIsLastQuery ==
    [][/\ (BeforeAdmission' /\ ~BeforeAdmission) =>
            /\ pc \in {"start", "query"}
            /\ active_close_orders' = IdsFrom(1, close_order_side)
       /\ BeforeAdmission =>
            /\ active_close_orders' = active_close_orders
            /\ 0 \notin Range(active_close_orders)
       /\ (pc = "loop" /\ pc' # "loop") =>
            wait_time_l' = CalculateWaitTime(Len(active_close_orders), max_orders)]_vars

\* C33 witness: the admission check after a cancelled cycle, whose 0 sentinel is
\* not in the list.
C33_Witness ==
    /\ pc = "loop"
    /\ order_status = "CANCELLED"
    /\ skip_waiting_time
    /\ 0 \notin Range(active_close_orders)

\* the number of close orders resting on the exchange
Resting == Len(IdsFrom(1, close_order_side))

\* the number of open orders the control loop has placed
OpensPlaced == Cardinality(OpenLegIds)

\* the control loop is outside an attempt: no open order of its own awaits its
\* result
BetweenAttempts == pc \in {"start", "loop", "place_open", "query", "sleep_max", "sleep_pace"}

\* C34 as stated: whenever fewer than max_orders close orders rest on the
\* exchange, a new open order is eventually placed.
C34_AsStated ==
    \A k \in 0..(MaxOpens - 1) :
        (Resting < max_orders /\ OpensPlaced = k) ~> (OpensPlaced > k)

\* C34, amended: whenever the control loop is outside an attempt and fewer than
\* max_orders close orders rest on the exchange, a new open order is eventually
\* placed; so after the maximum, the fill of a close order leads to a new
\* attempt.
C34_OpensWhenBelowLimit ==
    \A k \in 0..(MaxOpens - 1) :
        (BetweenAttempts /\ Resting < max_orders /\ OpensPlaced = k) ~> (OpensPlaced > k)

\* C34 witness: the bot started with max_orders close orders resting on the
\* exchange, one of them has filled, and the control loop has placed an open
\* order, which the full list would not have admitted.
C34_Witness ==
    /\ Len(exch) > max_orders
    /\ \A i \in 1..max_orders : exch[i].leg = "CLOSE"
    /\ \E i \in 1..max_orders : exch[i].status = "FILLED"
    /\ exch[max_orders + 1].leg = "OPEN"

\* C35: while the control loop is blocked in the fill wait of an attempt and the
\* listener is not in the middle of an update, order_monitor.filled being true
\* for the order of the attempt implies that fill_event is set.
C35_FilledImpliesSignal ==
    (/\ pc = "wait"
     /\ lpc = "idle"
     /\ order_monitor.order_id = order
     /\ order_monitor.filled) => fill_event

\* C36: when the last message the listener handled ended in a caught exception,
\* the listener has returned and the control loop is not in the middle of its
\* reclassification, a fill flag that is true comes with a price and a
\* quantity: no failed event leaves the flag written alone.
C36_FailedEventWritesNothing ==
    (/\ handled # << >>
     /\ handled[Len(handled)] = "caught"
     /\ lpc = "idle"
     /\ pc \notin {"recl_filled", "recl_qty", "recl_price"}
     /\ order_monitor.filled) =>
        /\ order_monitor.filled_price # None
        /\ order_monitor.filled_qty > 0

\* C37: when the skip-wait flag is about to be recomputed after an attempt whose
\* open order was placed, and some cycle has assigned a status, order_status is
\* the status this attempt assigned and close_order, when it names an order,
\* names one placed after this attempt's open order.
C37_StatusOfThisAttempt ==
    (/\ pc = "query"
     /\ order # None
     /\ order_status # "None") =>
        /\ order_status = outcome
        /\ close_order # None => Val(close_order) > Val(order)

\* C38: when an attempt is over, every close order placed in it has the
\* quantity the exchange executed on the attempt's open order, and there is none
\* when the open order executed nothing.
C38_CloseQuantityIsExecuted ==
    (pc = "query" /\ order # None) =>
        \A c \in CloseOrdersFor(Val(order)) :
            /\ exch[Val(order)].executedQty > 0
            /\ exch[c].origQty = exch[Val(order)].executedQty

\* C39: whenever the keep-alive thread is asleep between two renewals, the
\* listen key the listener's subscription was opened with is the key the client
\* has cached.
C39_SubscribedKeyIsCached ==
    (kpc = "sleep" /\ subscribed_key # None) => subscribed_key = listen_key

=============================================================================
